---- MODULE Spec2Model ----
(***************************************************************************)
(* The randy-ng terminal number-guessing game: the App record, its run     *)
(* loop (render, then handle_events), the key handlers and input           *)
(* validation of src/src/app.rs, and the state-changing part of the        *)
(* renderer of src/src/ui.rs.                                              *)
(*                                                                         *)
(* Texts are sequences of one-character strings.  The handlers are         *)
(* operators from an App record to an App record, composed exactly as the  *)
(* Rust methods call each other; the actions at the end apply them to the  *)
(* variables.                                                              *)
(***************************************************************************)
EXTENDS Integers, Sequences, FiniteSets, TLC

VARIABLES
    pc,                     \* position of App::run: "draw", "events", "done", "error", "panic"
    exit,                   \* App.exit
    screen,                 \* App.screen
    score,                  \* App.score
    range_input,            \* App.range_input
    input,                  \* App.input
    result,                 \* App.result: "None", "Correct", "Incorrect"
    model,                  \* App.model
    models,                 \* App.models
    models_view,            \* App.models_view
    model_view_selected,    \* App.model_view_selected
    model_view_offset,      \* App.model_view_offset
    extra_line_help,        \* App.extra_line_help
    processing_request,     \* App.processing_request
    chat_completion_output, \* App.chat_completion_output
    height,                 \* rows of the model list area of the terminal
    last_screen,            \* the screen at the call of the handle_events that just returned
    last_key,               \* the key it read ("NoKey": none)
    last_valid,             \* what its call of validate_input returned ("None": no call)
    last_draw,              \* the value its rng draw returned, -1 if it drew none
    last_calls,             \* the chat-completion requests it sent
    script,                 \* keys the scripted user has still to press
    report                  \* what main returned ("None": it has not returned)

vars == <<pc, exit, screen, score, range_input, input, result, model, models,
          models_view, model_view_selected, model_view_offset, extra_line_help,
          processing_request, chat_completion_output, height, last_screen,
          last_key, last_valid, last_draw, last_calls, script, report>>

----------------------------------------------------------------------------
(* Bounds of the model. *)

\* longest catalogue the model keeps
MaxModels == 5
\* largest number of rows of the model list area
MaxHeight == 2
\* largest number of empty replies before the chat completion answers
MaxEmpty == 1

----------------------------------------------------------------------------
(* Screen values (utils.rs). *)

MainMenu(item) == <<"MainMenu", item>>
OptionsMenu(item) == <<"OptionsMenu", item>>
Game(item) == <<"InGame", "Game", item>>
EndMenu(item) == <<"InGame", "EndMenu", item>>
ModelMenu == <<"ModelMenu">>

IsGame(s) == s \in {Game("Range"), Game("Input")}

Screen == {MainMenu("Play"), MainMenu("Options"), MainMenu("Exit"),
           OptionsMenu("Model"), OptionsMenu("Return"),
           Game("Range"), Game("Input"),
           EndMenu("Repeat"), EndMenu("Exit"), ModelMenu}

----------------------------------------------------------------------------
(* Key events (crossterm KeyCode as matched in handle_events). *)

Char(c) == [code |-> "Char", ch |-> c]
Tab == [code |-> "Tab", ch |-> ""]
Backspace == [code |-> "Backspace", ch |-> ""]
Enter == [code |-> "Enter", ch |-> ""]
Esc == [code |-> "Esc", ch |-> ""]
NoKey == [code |-> "NoKey", ch |-> ""]

----------------------------------------------------------------------------
(* Text helpers: str::find(".."), split_at, chars().rev(), the two regexes  *)
(* and str::parse::<usize>.                                                *)

AsciiDigits == {"0", "1", "2", "3", "4", "5", "6", "7", "8", "9"}

DigitVal(c) ==
    CASE c = "0" -> 0 [] c = "1" -> 1 [] c = "2" -> 2 [] c = "3" -> 3
      [] c = "4" -> 4 [] c = "5" -> 5 [] c = "6" -> 6 [] c = "7" -> 7
      [] c = "8" -> 8 [] c = "9" -> 9

\* usize::MAX of a 64-bit target, 18446744073709551615, digit by digit
UsizeMaxDigits ==
    <<1, 8, 4, 4, 6, 7, 4, 4, 0, 7, 3, 7, 0, 9, 5, 5, 1, 6, 1, 5>>

Reverse(s) == [i \in 1..Len(s) |-> s[Len(s) + 1 - i]]

\* the characters \d of the regex crate matches: every Unicode decimal
\* digit; "U+0663" stands for ARABIC-INDIC DIGIT THREE
ReDigits == AsciiDigits \cup {"U+0663"}

AllDigits(s) == \A i \in 1..Len(s) : s[i] \in AsciiDigits

AllReDigits(s) == \A i \in 1..Len(s) : s[i] \in ReDigits

\* \A\d+\z
input_re_match(s) == Len(s) >= 1 /\ AllReDigits(s)

\* \A\d+\.\.\d+\z
ranged_re_match(s) ==
    \E i \in 2..(Len(s) - 2) :
        /\ s[i] = "." /\ s[i + 1] = "."
        /\ AllReDigits(SubSeq(s, 1, i - 1))
        /\ AllReDigits(SubSeq(s, i + 2, Len(s)))

\* str::find(".."): number of characters before the first "..", -1 if there is none
find_dots(s) ==
    LET hits == {i \in 1..(Len(s) - 1) : s[i] = "." /\ s[i + 1] = "."}
    IN  IF hits = {} THEN -1
        ELSE (CHOOSE i \in hits : \A j \in hits : i <= j) - 1

\* str::split_at(mid)
split_at(s, mid) == <<SubSeq(s, 1, mid), SubSeq(s, mid + 1, Len(s))>>

RECURSIVE StripZeros(_)
StripZeros(s) ==
    IF Len(s) >= 1 /\ s[1] = "0" THEN StripZeros(Tail(s)) ELSE s

RECURSIVE DigitsGreater(_, _)
\* digit strings of equal length: a > b
DigitsGreater(a, b) ==
    IF a = <<>> THEN FALSE
    ELSE IF DigitVal(a[1]) # b[1] THEN DigitVal(a[1]) > b[1]
    ELSE DigitsGreater(Tail(a), Tail(b))

\* the digit string does not fit a usize
Overflows(s) ==
    LET t == StripZeros(s)
    IN  \/ Len(t) > Len(UsizeMaxDigits)
        \/ Len(t) = Len(UsizeMaxDigits) /\ DigitsGreater(t, UsizeMaxDigits)

RECURSIVE Horner(_, _)
Horner(acc, s) ==
    IF s = <<>> THEN acc ELSE Horner(acc * 10 + DigitVal(s[1]), Tail(s))

\* str::parse::<usize>(): Err on an empty text, a non-digit or an overflow
parse_usize(s) ==
    IF Len(s) = 0 \/ ~AllDigits(s) \/ Overflows(s)
    THEN [ok |-> FALSE, val |-> 0]
    ELSE [ok |-> TRUE, val |-> Horner(0, StripZeros(s))]

\* the two bounds as validate_input and process_random read them from a
\* range text that contains ".."
range_bounds(text) ==
    LET first == split_at(text, find_dots(text))
        rev == Reverse(first[2])
        second == split_at(rev, find_dots(rev))
    IN  [start |-> parse_usize(first[1]), end |-> parse_usize(second[1])]

----------------------------------------------------------------------------
(* The App record and the results of its methods. *)

DefaultModel == "qwen/qwen3-32b:free"

self ==
    [exit |-> exit, screen |-> screen, score |-> score,
     range_input |-> range_input, input |-> input, result |-> result,
     model |-> model, models |-> models, models_view |-> models_view,
     model_view_selected |-> model_view_selected,
     model_view_offset |-> model_view_offset,
     extra_line_help |-> extra_line_help,
     processing_request |-> processing_request,
     chat_completion_output |-> chat_completion_output]

\* a method that returned, one that returned Err, one that panicked
Ok(app) == [status |-> "Ok", app |-> app]
Err(app) == [status |-> "Err", app |-> app]
Panic(app) == [status |-> "Panic", app |-> app]

----------------------------------------------------------------------------
(* App::validate_input *)

validate_input(app) ==
    IF ranged_re_match(app.range_input) /\ input_re_match(app.input)
    THEN LET b == range_bounds(app.range_input)
             guess == parse_usize(app.input)
         IN  IF ~b.start.ok \/ ~b.end.ok \/ ~guess.ok
             THEN [status |-> "Panic", value |-> FALSE]
             ELSE [status |-> "Ok",
                   value |-> /\ b.start.val < b.end.val
                             /\ guess.val >= b.start.val
                             /\ guess.val <= b.end.val]
    ELSE [status |-> "Ok", value |-> FALSE]

----------------------------------------------------------------------------
(* App::process_random, App::process_request, App::handle_request *)

\* the values rng.usize(start..=end) can return for the texts of app
DrawRange(app) ==
    IF app.processing_request /\ find_dots(app.range_input) >= 0
    THEN LET b == range_bounds(app.range_input)
         IN  IF b.start.ok /\ b.end.ok THEN b.start.val..b.end.val ELSE {-1}
    ELSE {-1}

\* process_random that counts a correct guess
process_random_scoring(app, random) ==
    IF find_dots(app.range_input) < 0 THEN Panic(app)
    ELSE LET b == range_bounds(app.range_input)
             guess == parse_usize(app.input)
         IN  IF ~b.start.ok \/ ~b.end.ok \/ ~guess.ok \/ b.start.val > b.end.val
             THEN Panic(app)
             ELSE IF guess.val = random
                  THEN Ok([app EXCEPT !.result = "Correct",
                                      !.score = (@ + 1) % 256])
                  ELSE Ok([app EXCEPT !.result = "Incorrect"])

process_random(app, random) ==
    IF find_dots(app.range_input) < 0 THEN Panic(app)
    ELSE LET b == range_bounds(app.range_input)
             guess == parse_usize(app.input)
         IN  IF ~b.start.ok \/ ~b.end.ok \/ ~guess.ok \/ b.start.val > b.end.val
             THEN Panic(app)
             ELSE IF guess.val = random
                  THEN Ok([app EXCEPT !.result = "Correct"])
                  ELSE Ok([app EXCEPT !.result = "Incorrect"])

\* reply: the first reply of the service that is not a successful empty text
process_request(app, reply) ==
    IF app.result = "None" THEN Panic(app)
    ELSE IF reply.kind = "NoChoices" THEN Panic(app)
    ELSE IF reply.kind = "Text"
         THEN Ok([app EXCEPT !.chat_completion_output = reply.text])
         ELSE Err(app)

\* handle_request that leaves the processing flag set
handle_request_keeping_flag(app, random, reply) ==
    IF app.processing_request
    THEN LET r1 == process_random(app, random)
         IN  IF r1.status # "Ok" THEN r1
             ELSE LET r2 == process_request(r1.app, reply)
                  IN  IF r2.status # "Ok" THEN r2
                      ELSE Ok([r2.app EXCEPT !.screen = EndMenu("Repeat")])
    ELSE Ok(app)

\* handle_request that moves to the end menu before it looks at the error
handle_request_moving_on_error(app, random, reply) ==
    IF app.processing_request
    THEN LET r1 == process_random(app, random)
         IN  IF r1.status # "Ok" THEN r1
             ELSE LET r2 == process_request(r1.app, reply)
                      moved == [r2.app EXCEPT !.screen = EndMenu("Repeat")]
                  IN  IF r2.status = "Err" THEN Err(moved)
                      ELSE IF r2.status # "Ok" THEN r2
                      ELSE Ok([moved EXCEPT !.processing_request = FALSE])
    ELSE Ok(app)

\* handle_request that picks the end-menu item by the outcome
handle_request_by_outcome(app, random, reply) ==
    IF app.processing_request
    THEN LET r1 == process_random(app, random)
         IN  IF r1.status # "Ok" THEN r1
             ELSE LET r2 == process_request(r1.app, reply)
                  IN  IF r2.status # "Ok" THEN r2
                      ELSE Ok([r2.app EXCEPT
                                  !.screen = IF r2.app.result = "Correct"
                                             THEN EndMenu("Repeat")
                                             ELSE EndMenu("Exit"),
                                  !.processing_request = FALSE])
    ELSE Ok(app)

\* handle_request that never resolves the round
handle_request_skipping(app, random, reply) ==
    Ok(app)

\* handle_request that stays on the text-entry screen
handle_request_staying(app, random, reply) ==
    IF app.processing_request
    THEN LET r1 == process_random(app, random)
         IN  IF r1.status # "Ok" THEN r1
             ELSE LET r2 == process_request(r1.app, reply)
                  IN  IF r2.status # "Ok" THEN r2
                      ELSE Ok([r2.app EXCEPT !.processing_request = FALSE])
    ELSE Ok(app)

handle_request(app, random, reply) ==
    IF app.processing_request
    THEN LET r1 == process_random(app, random)
         IN  IF r1.status # "Ok" THEN r1
             ELSE LET r2 == process_request(r1.app, reply)
                  IN  IF r2.status # "Ok" THEN r2
                      ELSE Ok([r2.app EXCEPT
                                  !.screen = EndMenu("Repeat"),
                                  !.processing_request = FALSE])
    ELSE Ok(app)

----------------------------------------------------------------------------
(* App::fetch_models and App::handle_model_menu_updates *)

\* listing: the reply of the model listing service
fetch_models(app, listing) ==
    IF ~listing.ok THEN Panic(app)
    ELSE Ok([app EXCEPT !.models = app.models \o listing.data])

\* index of the first catalogue entry the loop of handle_model_menu_updates
\* stops at, 0 if it stops at none
FirstMatch(app, edge) ==
    LET hits == {i \in 1..Len(app.models) :
                    /\ app.models[i] = app.model_view_selected
                    /\ app.models[i] # edge}
    IN  IF hits = {} THEN 0 ELSE CHOOSE i \in hits : \A j \in hits : i <= j

\* the Down branch without its scroll
handle_model_menu_down_not_scrolling(app) ==
    LET idx == IF app.models = <<>> THEN 0
               ELSE FirstMatch(app, app.models[Len(app.models)])
    IN  IF idx = 0 THEN Ok(app)
        ELSE IF app.models_view = <<>> THEN Panic(app)
        ELSE Ok([app EXCEPT !.model_view_selected = app.models[idx + 1]])

handle_model_menu_down(app) ==
    LET idx == IF app.models = <<>> THEN 0
               ELSE FirstMatch(app, app.models[Len(app.models)])
    IN  IF idx = 0 THEN Ok(app)
        ELSE IF app.models_view = <<>> THEN Panic(app)
        ELSE LET next == app.models[idx + 1]
                 first_model_after_view ==
                     IF app.model_view_selected = app.models_view[Len(app.models_view)]
                     THEN next ELSE ""
             IN  Ok([app EXCEPT
                        !.model_view_selected = next,
                        !.model_view_offset =
                            IF first_model_after_view # "" /\ next = first_model_after_view
                            THEN @ + 1 ELSE @])

\* the Up branch without its scroll
handle_model_menu_up_not_scrolling(app) ==
    LET idx == IF app.models = <<>> THEN 0
               ELSE FirstMatch(app, app.models[1])
    IN  IF idx = 0 THEN Ok(app)
        ELSE IF app.models_view = <<>> THEN Panic(app)
        ELSE Ok([app EXCEPT !.model_view_selected = app.models[idx - 1]])

\* model_view_offset -= 1 at offset 0 is modelled as the panic of a build with
\* overflow checks
\* the Up branch that scrolls whenever the highlight moves; the u16 offset
\* wraps below 0
handle_model_menu_up_always_scrolling(app) ==
    LET idx == IF app.models = <<>> THEN 0
               ELSE FirstMatch(app, app.models[1])
    IN  IF idx = 0 THEN Ok(app)
        ELSE IF app.models_view = <<>> THEN Panic(app)
        ELSE Ok([app EXCEPT !.model_view_selected = app.models[idx - 1],
                            !.model_view_offset = (@ - 1) % 65536])

handle_model_menu_up(app) ==
    LET idx == IF app.models = <<>> THEN 0
               ELSE FirstMatch(app, app.models[1])
    IN  IF idx = 0 THEN Ok(app)
        ELSE IF app.models_view = <<>> THEN Panic(app)
        ELSE LET prev == app.models[idx - 1]
                 first_model_before_view ==
                     IF app.model_view_selected = app.models_view[1]
                     THEN prev ELSE ""
                 scrolls == first_model_before_view # "" /\ prev = first_model_before_view
             IN  IF scrolls /\ app.model_view_offset = 0 THEN Panic(app)
                 ELSE Ok([app EXCEPT
                             !.model_view_selected = prev,
                             !.model_view_offset = IF scrolls THEN @ - 1 ELSE @])

\* handle_model_menu_updates that chooses the identifier it highlights
handle_model_menu_updates_choosing(app, direction) ==
    LET r == IF direction = "Down" THEN handle_model_menu_down(app)
             ELSE handle_model_menu_up(app)
    IN  IF r.status # "Ok" THEN r
        ELSE Ok([r.app EXCEPT !.model = r.app.model_view_selected])

handle_model_menu_updates(app, direction) ==
    IF direction = "Down" THEN handle_model_menu_down(app)
    ELSE handle_model_menu_up(app)

----------------------------------------------------------------------------
(* The key handlers of App. *)

\* handle_textual_input that edits the range text whatever the focus
handle_textual_input_range_only(app, operation, ch) ==
    IF IsGame(app.screen)
    THEN CASE operation = "Addition" ->
                  [app EXCEPT !.range_input = Append(@, ch)]
           [] operation = "Deletion" ->
                  [app EXCEPT !.range_input =
                                  IF @ = <<>> THEN @ ELSE SubSeq(@, 1, Len(@) - 1)]
           [] operation = "SwitchFocus" ->
                  [app EXCEPT !.screen = IF @ = Game("Range")
                                         THEN Game("Input") ELSE Game("Range")]
    ELSE app

handle_textual_input(app, operation, ch) ==
    IF app.screen = Game("Range")
    THEN CASE operation = "Addition" ->
                  [app EXCEPT !.range_input = Append(@, ch)]
           [] operation = "Deletion" ->
                  [app EXCEPT !.range_input =
                                  IF @ = <<>> THEN @ ELSE SubSeq(@, 1, Len(@) - 1)]
           [] operation = "SwitchFocus" ->
                  [app EXCEPT !.screen = Game("Input")]
    ELSE IF app.screen = Game("Input")
    THEN CASE operation = "Addition" ->
                  [app EXCEPT !.input = Append(@, ch)]
           [] operation = "Deletion" ->
                  [app EXCEPT !.input =
                                  IF @ = <<>> THEN @ ELSE SubSeq(@, 1, Len(@) - 1)]
           [] operation = "SwitchFocus" ->
                  [app EXCEPT !.screen = Game("Range")]
    ELSE app

\* handle_l_input that enters the model menu without moving the highlight
handle_l_input_not_highlighting(app, listing) ==
    CASE app.screen = MainMenu("Play") ->
             Ok([app EXCEPT !.screen = Game("Range")])
      [] app.screen = MainMenu("Options") ->
             Ok([app EXCEPT !.screen = OptionsMenu("Model")])
      [] app.screen = MainMenu("Exit") ->
             Ok([app EXCEPT !.exit = TRUE])
      [] app.screen = OptionsMenu("Model") ->
             LET entered == [app EXCEPT !.screen = ModelMenu,
                                        !.model_view_offset = 0]
                 fetched == fetch_models(entered, listing)
             IN  IF fetched.status # "Ok" THEN fetched
                 ELSE IF fetched.app.models = <<>> THEN Panic(fetched.app)
                 ELSE Ok(fetched.app)
      [] app.screen = OptionsMenu("Return") ->
             Ok([app EXCEPT !.screen = MainMenu("Play")])
      [] app.screen = ModelMenu ->
             Ok([app EXCEPT !.model = app.model_view_selected])
      [] app.screen = EndMenu("Repeat") ->
             Ok([app EXCEPT !.screen = Game("Range")])
      [] app.screen = EndMenu("Exit") ->
             Ok([app EXCEPT !.exit = TRUE])
      [] OTHER -> Ok(app)

\* handle_l_input that enters the model menu without resetting the offset
handle_l_input_keeping_offset(app, listing) ==
    CASE app.screen = MainMenu("Play") ->
             Ok([app EXCEPT !.screen = Game("Range")])
      [] app.screen = MainMenu("Options") ->
             Ok([app EXCEPT !.screen = OptionsMenu("Model")])
      [] app.screen = MainMenu("Exit") ->
             Ok([app EXCEPT !.exit = TRUE])
      [] app.screen = OptionsMenu("Model") ->
             LET entered == [app EXCEPT !.screen = ModelMenu]
                 fetched == fetch_models(entered, listing)
             IN  IF fetched.status # "Ok" THEN fetched
                 ELSE IF fetched.app.models = <<>> THEN Panic(fetched.app)
                 ELSE Ok([fetched.app EXCEPT
                             !.model_view_selected = fetched.app.models[1]])
      [] app.screen = OptionsMenu("Return") ->
             Ok([app EXCEPT !.screen = MainMenu("Play")])
      [] app.screen = ModelMenu ->
             Ok([app EXCEPT !.model = app.model_view_selected])
      [] app.screen = EndMenu("Repeat") ->
             Ok([app EXCEPT !.screen = Game("Range")])
      [] app.screen = EndMenu("Exit") ->
             Ok([app EXCEPT !.exit = TRUE])
      [] OTHER -> Ok(app)

\* handle_l_input that forgets the outcome when the round is repeated
handle_l_input_clearing_result(app, listing) ==
    CASE app.screen = MainMenu("Play") ->
             Ok([app EXCEPT !.screen = Game("Range")])
      [] app.screen = MainMenu("Options") ->
             Ok([app EXCEPT !.screen = OptionsMenu("Model")])
      [] app.screen = MainMenu("Exit") ->
             Ok([app EXCEPT !.exit = TRUE])
      [] app.screen = OptionsMenu("Model") ->
             LET entered == [app EXCEPT !.screen = ModelMenu,
                                        !.model_view_offset = 0]
                 fetched == fetch_models(entered, listing)
             IN  IF fetched.status # "Ok" THEN fetched
                 ELSE IF fetched.app.models = <<>> THEN Panic(fetched.app)
                 ELSE Ok([fetched.app EXCEPT
                             !.model_view_selected = fetched.app.models[1]])
      [] app.screen = OptionsMenu("Return") ->
             Ok([app EXCEPT !.screen = MainMenu("Play")])
      [] app.screen = ModelMenu ->
             Ok([app EXCEPT !.model = app.model_view_selected])
      [] app.screen = EndMenu("Repeat") ->
             Ok([app EXCEPT !.screen = Game("Range"), !.result = "None"])
      [] app.screen = EndMenu("Exit") ->
             Ok([app EXCEPT !.exit = TRUE])
      [] OTHER -> Ok(app)

handle_l_input(app, listing) ==
    CASE app.screen = MainMenu("Play") ->
             Ok([app EXCEPT !.screen = Game("Range")])
      [] app.screen = MainMenu("Options") ->
             Ok([app EXCEPT !.screen = OptionsMenu("Model")])
      [] app.screen = MainMenu("Exit") ->
             Ok([app EXCEPT !.exit = TRUE])
      [] app.screen = OptionsMenu("Model") ->
             LET entered == [app EXCEPT !.screen = ModelMenu,
                                        !.model_view_offset = 0]
                 fetched == fetch_models(entered, listing)
             IN  IF fetched.status # "Ok" THEN fetched
                 ELSE IF fetched.app.models = <<>> THEN Panic(fetched.app)
                 ELSE Ok([fetched.app EXCEPT
                             !.model_view_selected = fetched.app.models[1]])
      [] app.screen = OptionsMenu("Return") ->
             Ok([app EXCEPT !.screen = MainMenu("Play")])
      [] app.screen = ModelMenu ->
             Ok([app EXCEPT !.model = app.model_view_selected])
      [] app.screen = EndMenu("Repeat") ->
             Ok([app EXCEPT !.screen = Game("Range")])
      [] app.screen = EndMenu("Exit") ->
             Ok([app EXCEPT !.exit = TRUE])
      [] OTHER -> Ok(app)

\* handle_k_input with an arm that wraps from Play to Exit
handle_k_input_wrapping(app) ==
    CASE app.screen = MainMenu("Play") ->
             Ok([app EXCEPT !.screen = MainMenu("Exit")])
      [] app.screen = MainMenu("Exit") ->
             Ok([app EXCEPT !.screen = MainMenu("Options")])
      [] app.screen = MainMenu("Options") ->
             Ok([app EXCEPT !.screen = MainMenu("Play")])
      [] app.screen = OptionsMenu("Return") ->
             Ok([app EXCEPT !.screen = OptionsMenu("Model")])
      [] app.screen = ModelMenu ->
             handle_model_menu_updates(app, "Up")
      [] app.screen = EndMenu("Exit") ->
             Ok([app EXCEPT !.screen = EndMenu("Repeat")])
      [] OTHER -> Ok(app)

\* handle_k_input with an arm that wraps from Repeat to Exit
handle_k_input_wrapping_end(app) ==
    CASE app.screen = MainMenu("Exit") ->
             Ok([app EXCEPT !.screen = MainMenu("Options")])
      [] app.screen = MainMenu("Options") ->
             Ok([app EXCEPT !.screen = MainMenu("Play")])
      [] app.screen = OptionsMenu("Return") ->
             Ok([app EXCEPT !.screen = OptionsMenu("Model")])
      [] app.screen = ModelMenu ->
             handle_model_menu_updates(app, "Up")
      [] app.screen = EndMenu("Exit") ->
             Ok([app EXCEPT !.screen = EndMenu("Repeat")])
      [] app.screen = EndMenu("Repeat") ->
             Ok([app EXCEPT !.screen = EndMenu("Exit")])
      [] OTHER -> Ok(app)

handle_k_input(app) ==
    CASE app.screen = MainMenu("Exit") ->
             Ok([app EXCEPT !.screen = MainMenu("Options")])
      [] app.screen = MainMenu("Options") ->
             Ok([app EXCEPT !.screen = MainMenu("Play")])
      [] app.screen = OptionsMenu("Return") ->
             Ok([app EXCEPT !.screen = OptionsMenu("Model")])
      [] app.screen = ModelMenu ->
             handle_model_menu_updates(app, "Up")
      [] app.screen = EndMenu("Exit") ->
             Ok([app EXCEPT !.screen = EndMenu("Repeat")])
      [] OTHER -> Ok(app)

\* handle_j_input whose Play arm names the wrong item
handle_j_input_skipping(app) ==
    CASE app.screen = MainMenu("Play") ->
             Ok([app EXCEPT !.screen = MainMenu("Exit")])
      [] app.screen = MainMenu("Options") ->
             Ok([app EXCEPT !.screen = MainMenu("Exit")])
      [] app.screen = OptionsMenu("Model") ->
             Ok([app EXCEPT !.screen = OptionsMenu("Return")])
      [] app.screen = ModelMenu ->
             handle_model_menu_updates(app, "Down")
      [] app.screen = EndMenu("Repeat") ->
             Ok([app EXCEPT !.screen = EndMenu("Exit")])
      [] OTHER -> Ok(app)

\* handle_j_input with an arm that wraps from Return to Model
handle_j_input_wrapping(app) ==
    CASE app.screen = MainMenu("Play") ->
             Ok([app EXCEPT !.screen = MainMenu("Options")])
      [] app.screen = MainMenu("Options") ->
             Ok([app EXCEPT !.screen = MainMenu("Exit")])
      [] app.screen = OptionsMenu("Model") ->
             Ok([app EXCEPT !.screen = OptionsMenu("Return")])
      [] app.screen = OptionsMenu("Return") ->
             Ok([app EXCEPT !.screen = OptionsMenu("Model")])
      [] app.screen = ModelMenu ->
             handle_model_menu_updates(app, "Down")
      [] app.screen = EndMenu("Repeat") ->
             Ok([app EXCEPT !.screen = EndMenu("Exit")])
      [] OTHER -> Ok(app)

handle_j_input(app) ==
    CASE app.screen = MainMenu("Play") ->
             Ok([app EXCEPT !.screen = MainMenu("Options")])
      [] app.screen = MainMenu("Options") ->
             Ok([app EXCEPT !.screen = MainMenu("Exit")])
      [] app.screen = OptionsMenu("Model") ->
             Ok([app EXCEPT !.screen = OptionsMenu("Return")])
      [] app.screen = ModelMenu ->
             handle_model_menu_updates(app, "Down")
      [] app.screen = EndMenu("Repeat") ->
             Ok([app EXCEPT !.screen = EndMenu("Exit")])
      [] OTHER -> Ok(app)

\* handle_h_input that also leaves the end menu for the main menu
handle_h_input_leaving_game(app) ==
    IF app.screen = ModelMenu
    THEN [app EXCEPT !.screen = OptionsMenu("Model")]
    ELSE IF app.screen \in {EndMenu("Repeat"), EndMenu("Exit")}
    THEN [app EXCEPT !.screen = MainMenu("Play")]
    ELSE app

\* handle_h_input that also leaves the options menu for the main menu
handle_h_input_leaving_options(app) ==
    IF app.screen = ModelMenu
    THEN [app EXCEPT !.screen = OptionsMenu("Model")]
    ELSE IF app.screen = OptionsMenu("Model")
    THEN [app EXCEPT !.screen = MainMenu("Play")]
    ELSE app

\* handle_h_input that chooses the highlighted model on its way out
handle_h_input_choosing(app) ==
    IF app.screen = ModelMenu
    THEN [app EXCEPT !.screen = OptionsMenu("Model"),
                     !.model = app.model_view_selected]
    ELSE app

\* handle_h_input that also goes from any main-menu item back to Play
handle_h_input_to_play(app) ==
    IF app.screen = ModelMenu
    THEN [app EXCEPT !.screen = OptionsMenu("Model")]
    ELSE IF app.screen \in {MainMenu("Options"), MainMenu("Exit")}
    THEN [app EXCEPT !.screen = MainMenu("Play")]
    ELSE app

handle_h_input(app) ==
    IF app.screen = ModelMenu
    THEN [app EXCEPT !.screen = OptionsMenu("Model")]
    ELSE app

\* the Enter arm with the processing flag set outside the if
handle_enter_always_processing(app) ==
    LET v == validate_input(app)
    IN  IF v.status = "Panic" THEN Panic(app)
        ELSE IF v.value
             THEN Ok([app EXCEPT !.extra_line_help = FALSE,
                                 !.processing_request = TRUE])
             ELSE Ok([app EXCEPT !.extra_line_help = TRUE,
                                 !.processing_request = TRUE])

\* the Enter arm that leaves the invalid flag as it was on a valid confirm
handle_enter_keeping_help(app) ==
    LET v == validate_input(app)
    IN  IF v.status = "Panic" THEN Panic(app)
        ELSE IF v.value
             THEN Ok([app EXCEPT !.processing_request = TRUE])
             ELSE Ok([app EXCEPT !.extra_line_help = TRUE])

\* the Enter arm of handle_events
handle_enter(app) ==
    LET v == validate_input(app)
    IN  IF v.status = "Panic" THEN Panic(app)
        ELSE IF v.value
             THEN Ok([app EXCEPT !.extra_line_help = FALSE,
                                 !.processing_request = TRUE])
             ELSE Ok([app EXCEPT !.extra_line_help = TRUE])

\* the match on key.code with an Enter arm that has lost its guard
handle_key_enter_anywhere(app, key, listing) ==
    LET editing == IsGame(app.screen) /\ ~app.processing_request
    IN  CASE key.code = "NoKey" -> Ok(app)
          [] key.code = "Char" /\ editing ->
                 Ok(handle_textual_input(app, "Addition", key.ch))
          [] key.code = "Tab" /\ editing ->
                 Ok(handle_textual_input(app, "SwitchFocus", ""))
          [] key.code = "Backspace" /\ editing ->
                 Ok(handle_textual_input(app, "Deletion", ""))
          [] key.code = "Enter" -> handle_enter(app)
          [] key = Char("q") /\ ~editing -> Ok([app EXCEPT !.exit = TRUE])
          [] key = Char("j") /\ ~editing -> handle_j_input(app)
          [] key = Char("k") /\ ~editing -> handle_k_input(app)
          [] key = Char("l") /\ ~editing -> handle_l_input(app, listing)
          [] key = Char("h") /\ ~editing -> Ok(handle_h_input(app))
          [] OTHER -> Ok(app)

\* the match on key.code of handle_events; a Rust match takes the first arm
\* that fits, so the letter arms are reached only when the Char(ch) arm's
\* guard is false
handle_key(app, key, listing) ==
    LET editing == IsGame(app.screen) /\ ~app.processing_request
    IN  CASE key.code = "NoKey" -> Ok(app)
          [] key.code = "Char" /\ editing ->
                 Ok(handle_textual_input(app, "Addition", key.ch))
          [] key.code = "Tab" /\ editing ->
                 Ok(handle_textual_input(app, "SwitchFocus", ""))
          [] key.code = "Backspace" /\ editing ->
                 Ok(handle_textual_input(app, "Deletion", ""))
          [] key.code = "Enter" /\ editing -> handle_enter(app)
          [] key = Char("q") /\ ~editing -> Ok([app EXCEPT !.exit = TRUE])
          [] key = Char("j") /\ ~editing -> handle_j_input(app)
          [] key = Char("k") /\ ~editing -> handle_k_input(app)
          [] key = Char("l") /\ ~editing -> handle_l_input(app, listing)
          [] key = Char("h") /\ ~editing -> Ok(handle_h_input(app))
          [] OTHER -> Ok(app)

handle_events(app, key, random, reply, listing) ==
    LET r == handle_request(app, random, reply)
    IN  IF r.status # "Ok" THEN r ELSE handle_key(r.app, key, listing)

\* the key handle_events reads: none when handle_request fails first
key_read(app, key, random, reply) ==
    IF handle_request(app, random, reply).status = "Ok" THEN key ELSE NoKey

\* what the call of validate_input in handle_events returns, "None" without a call
validated(app, key, random, reply) ==
    LET r == handle_request(app, random, reply)
    IN  IF /\ r.status = "Ok" /\ key.code = "Enter"
           /\ IsGame(r.app.screen) /\ ~r.app.processing_request
        THEN LET v == validate_input(r.app)
             IN  IF v.status = "Panic" THEN "Panic"
                 ELSE IF v.value THEN "True" ELSE "False"
        ELSE "None"

\* chat-completion requests handle_events sends
requests_sent(app, random, reply) ==
    IF app.processing_request /\ process_random(app, random).status = "Ok"
    THEN reply.empties + 1
    ELSE 0

----------------------------------------------------------------------------
(* Widget::render for &mut App (ui.rs): the part that writes to App. *)

\* models.iter().skip(offset) truncated to rows
visible(app, rows) ==
    LET from == app.model_view_offset + 1
        upto == IF Len(app.models) < app.model_view_offset + rows
                THEN Len(app.models) ELSE app.model_view_offset + rows
    IN  SubSeq(app.models, from, upto)

\* render that also moves the highlight to the first row it shows
render_highlighting_first(app, rows) ==
    CASE app.screen = ModelMenu ->
             Ok([app EXCEPT
                    !.models_view = visible(app, rows),
                    !.model_view_selected =
                        IF visible(app, rows) = <<>> THEN @
                        ELSE Head(visible(app, rows))])
      [] app.screen \in {EndMenu("Repeat"), EndMenu("Exit")} ->
             IF app.result = "None" THEN Panic(app) ELSE Ok(app)
      [] OTHER -> Ok(app)

render(app, rows) ==
    CASE app.screen = ModelMenu ->
             Ok([app EXCEPT !.models_view = visible(app, rows)])
      [] app.screen \in {EndMenu("Repeat"), EndMenu("Exit")} ->
             IF app.result = "None" THEN Panic(app) ELSE Ok(app)
      [] OTHER -> Ok(app)

----------------------------------------------------------------------------
(* The environment: the keys the user presses, the texts the user types,   *)
(* the replies of the two remote services, the terminal's rows.            *)

Letters == {"q", "h", "j", "k", "l"}

\* the range texts and guess texts the free user types (and their prefixes)
TypedRanges ==
    {<<"0", ".", ".", "1">>, <<"q">>, <<"h">>, <<"j">>, <<"k">>, <<"l">>}

TypedGuesses ==
    {<<"0">>, <<"2">>, <<"q">>, <<"h">>, <<"j">>, <<"k">>, <<"l">>}

Prefixes(texts) == UNION {{SubSeq(t, 1, n) : n \in 0..Len(t)} : t \in texts}

Keys ==
    {Char(c) : c \in Letters \cup {"0", "1", "2", "."}}
        \cup {Tab, Backspace, Enter, Esc}

\* the numbers the scripted user types; the last one is usize::MAX + 1
Numerals ==
    {<<"0">>, <<"1">>, <<"2">>, <<"5">>, <<"1", "0">>, <<"1", "2">>,
     <<"1", "5">>, <<"2", "1">>,
     <<"1", "8", "4", "4", "6", "7", "4", "4", "0", "7",
       "3", "7", "0", "9", "5", "5", "1", "6", "1", "6">>}

\* the range texts of the scripted user: every a..b, and some that are not
\* of that form
ScriptRanges ==
    {a \o <<".", ".">> \o b : a \in Numerals, b \in Numerals}
        \cup {<<"1", ".", "2">>, <<"1", ".", ".", ".", "2">>, <<".", ".", "2">>,
              <<"1", ".", ".">>, <<"1", ".", ".", "2", " ">>,
              <<"-", "1", ".", ".", "2">>, <<"a", ".", ".", "2">>, <<>>}

\* the guess texts of the scripted user
ScriptGuesses ==
    Numerals \cup {<<>>, <<"-", "1">>, <<"1", " ">>, <<"a">>}

Typing(text) == [i \in 1..Len(text) |-> Char(text[i])]

\* select on Play, the range text, switch focus, the guess text, confirm
\* (from either field)
Scripts ==
    {<<Char("l")>> \o Typing(r) \o <<Tab>> \o Typing(g) \o e :
        r \in ScriptRanges, g \in ScriptGuesses,
        e \in {<<Enter>>, <<Tab, Enter>>}}

\* replies of the chat-completion service: a text after some empty texts, a
\* transport or decode error, a body without choices
Replies ==
    {[kind |-> k, text |-> IF k = "Text" THEN "Howdy" ELSE "", empties |-> n] :
        k \in {"Text", "Err", "NoChoices"}, n \in 0..MaxEmpty}

NoReply == [kind |-> "Text", text |-> "Howdy", empties |-> 0]

\* replies of the model-listing service
Listings ==
    {[ok |-> TRUE, data |-> <<"a", "b">>], [ok |-> FALSE, data |-> <<>>]}

NoListing == [ok |-> FALSE, data |-> <<>>]

\* the inputs a call of handle_events consumes in state app on key
RepliesFor(app) == IF app.processing_request THEN Replies ELSE {NoReply}

ListingsFor(app, key) ==
    IF key = Char("l") /\ app.screen = OptionsMenu("Model")
    THEN Listings ELSE {NoListing}

----------------------------------------------------------------------------
(* The run loop of App::run: draw, then handle_events, while !exit. *)

Commit(app) ==
    /\ exit' = app.exit
    /\ screen' = app.screen
    /\ score' = app.score
    /\ range_input' = app.range_input
    /\ input' = app.input
    /\ result' = app.result
    /\ model' = app.model
    /\ models' = app.models
    /\ models_view' = app.models_view
    /\ model_view_selected' = app.model_view_selected
    /\ model_view_offset' = app.model_view_offset
    /\ extra_line_help' = app.extra_line_help
    /\ processing_request' = app.processing_request
    /\ chat_completion_output' = app.chat_completion_output

\* App::default, in a terminal whose model list area has MaxHeight rows
Boot ==
    /\ pc = "draw"
    /\ exit = FALSE
    /\ screen = MainMenu("Play")
    /\ score = 0
    /\ result = "None"
    /\ range_input = <<>>
    /\ input = <<>>
    /\ model = DefaultModel
    /\ models = <<>>
    /\ models_view = <<>>
    /\ model_view_selected = ""
    /\ model_view_offset = 0
    /\ extra_line_help = FALSE
    /\ processing_request = FALSE
    /\ chat_completion_output = ""
    /\ height = MaxHeight
    /\ last_screen = <<"None">>
    /\ last_key = NoKey
    /\ last_valid = "None"
    /\ last_draw = -1
    /\ last_calls = 0
    /\ report = [status |-> "None", cause |-> ""]

Init == Boot /\ script = <<>>

\* term.draw(...)
Draw ==
    /\ pc = "draw"
    /\ \E r \in {render(self, height)} :
           /\ Commit(r.app)
           /\ pc' = IF r.status = "Panic" THEN "panic" ELSE "events"
    /\ last_screen' = <<"None">>
    /\ last_key' = NoKey
    /\ last_valid' = "None"
    /\ last_draw' = -1
    /\ last_calls' = 0
    /\ UNCHANGED <<height, script, report>>

\* handle_events followed by a loop that does not test exit
Step_ignoring_exit(key, random, reply, listing) ==
    \E r \in {handle_events(self, key, random, reply, listing)} :
        /\ Len(r.app.models) <= MaxModels
        /\ Commit(r.app)
        /\ pc' = CASE r.status = "Panic" -> "panic"
                   [] r.status = "Err" -> "error"
                   [] OTHER -> "draw"
        /\ last_screen' = screen
        /\ last_key' = key_read(self, key, random, reply)
        /\ last_valid' = validated(self, key, random, reply)
        /\ last_draw' = random
        /\ last_calls' = requests_sent(self, random, reply)
        /\ UNCHANGED <<height, report>>

\* self.handle_events()?, then the test of the while loop
Step(key, random, reply, listing) ==
    \E r \in {handle_events(self, key, random, reply, listing)} :
        /\ Len(r.app.models) <= MaxModels
        /\ Commit(r.app)
        /\ pc' = CASE r.status = "Panic" -> "panic"
                   [] r.status = "Err" -> "error"
                   [] OTHER -> IF r.app.exit THEN "done" ELSE "draw"
        /\ last_screen' = screen
        /\ last_key' = key_read(self, key, random, reply)
        /\ last_valid' = validated(self, key, random, reply)
        /\ last_draw' = random
        /\ last_calls' = requests_sent(self, random, reply)
        /\ UNCHANGED <<height, report>>

\* the user presses any key, or none within the poll timeout
KeyEvent ==
    /\ pc = "events"
    /\ \E app \in {self} :
         \E key \in Keys \cup {NoKey} :
           \E random \in DrawRange(app), reply \in RepliesFor(app),
              listing \in ListingsFor(app, key) :
              /\ Step(key, random, reply, listing)
              /\ range_input' \in Prefixes(TypedRanges)
              /\ input' \in Prefixes(TypedGuesses)
    /\ UNCHANGED script

\* the scripted user presses the next key of the script, and none after its end
ScriptEvent ==
    /\ pc = "events"
    /\ \E app \in {self} :
         \E key \in {IF script = <<>> THEN NoKey ELSE Head(script)} :
           \E random \in DrawRange(app), reply \in RepliesFor(app) :
              Step(key, random, reply, NoListing)
    /\ script' = IF script = <<>> THEN script ELSE Tail(script)

Next == Draw \/ KeyEvent

NextScript == Draw \/ ScriptEvent

Spec == Init /\ [][Next]_vars

\* one round typed by the scripted user
InitScript == Boot /\ script \in Scripts

SpecScript == InitScript /\ [][NextScript]_vars

\* the keys of the user who browses the menus
MenuKeys == {Char(c) : c \in {"h", "j", "k", "l"}}

\* replies of the model-listing service to that user: a catalogue longer than
\* the list area, a shorter one, an empty one, a failure
MenuListings ==
    {[ok |-> TRUE, data |-> <<"a", "b", "c">>],
     [ok |-> TRUE, data |-> <<"a", "b">>],
     [ok |-> TRUE, data |-> <<>>],
     [ok |-> FALSE, data |-> <<>>]}

MenuListingsFor(app, key) ==
    IF key = Char("l") /\ app.screen = OptionsMenu("Model")
    THEN MenuListings ELSE {NoListing}

\* the terminal is resized between two frames: the list area gets another
\* number of rows, none at all in a terminal that is too small
Resize ==
    /\ pc = "draw"
    /\ height' \in (0..MaxHeight) \ {height}
    /\ UNCHANGED <<pc, exit, screen, score, range_input, input, result, model,
                   models, models_view, model_view_selected, model_view_offset,
                   extra_line_help, processing_request, chat_completion_output,
                   last_screen, last_key, last_valid, last_draw, last_calls,
                   script, report>>

\* the user presses a navigation key, or none, and types no text
MenuEvent ==
    /\ pc = "events"
    /\ \E app \in {self} :
         \E key \in MenuKeys \cup {NoKey} :
           \E listing \in MenuListingsFor(app, key) :
              /\ Step(key, -1, NoReply, listing)
              /\ range_input' = <<>>
              /\ input' = <<>>
    /\ UNCHANGED script

NextMenu == Draw \/ Resize \/ MenuEvent

\* the menus browsed in a terminal that is resized at will
SpecMenu == Init /\ [][NextMenu]_vars

----------------------------------------------------------------------------
(* The round resolution with the loop of process_request taken apart: one  *)
(* request of the chat completion per step.  pc = "request" is the         *)
(* position inside the loop, last_calls the requests sent so far.          *)

\* the rounds of the user whose requests are followed one by one: a range
\* text, a guess text, a confirm, and the keys pressed after it
RetryScripts ==
    {<<Char("l")>> \o Typing(r) \o <<Tab>> \o Typing(g) \o <<Enter>> \o after :
        r \in {<<"0", ".", ".", "1">>, <<"1", ".", ".", "1", "2">>,
               <<"2", ".", ".", "1">>},
        g \in {<<"0">>, <<"1">>, <<"5">>},
        after \in {<<>>, <<Char("l")>>, <<Char("j"), Char("l")>>,
                   <<Char("q")>>}}

\* the key the scripted user presses next
ScriptKey == IF script = <<>> THEN NoKey ELSE Head(script)

\* requests counted, and no further
Counted(n) == IF n < MaxEmpty + 1 THEN n + 1 ELSE n

\* handle_events with no round to resolve
PlainEvent ==
    /\ ~processing_request
    /\ ScriptEvent

\* handle_events up to the loop of process_request: process_random, and the
\* request body built from the outcome
StartRequest ==
    /\ pc = "events"
    /\ processing_request
    /\ \E random \in DrawRange(self) :
         \E r \in {process_random(self, random)} :
            /\ Commit(r.app)
            /\ pc' = IF r.status = "Ok" /\ r.app.result # "None"
                     THEN "request" ELSE "panic"
            /\ last_draw' = random
    /\ last_screen' = screen
    /\ last_key' = NoKey
    /\ last_valid' = "None"
    /\ last_calls' = 0
    /\ UNCHANGED <<height, script, report>>

\* a request answered with an empty text: continue
Retry ==
    /\ pc = "request"
    /\ last_calls' = Counted(last_calls)
    /\ UNCHANGED <<pc, exit, screen, score, range_input, input, result, model,
                   models, models_view, model_view_selected, model_view_offset,
                   extra_line_help, processing_request, chat_completion_output,
                   height, last_screen, last_key, last_valid, last_draw,
                   script, report>>

\* a request answered with reply, which ends the loop, and the rest of
\* handle_request
Finish(reply) ==
    /\ pc = "request"
    /\ \E r \in {handle_request(self, last_draw, reply)} :
            /\ Commit(r.app)
            /\ pc' = CASE r.status = "Panic" -> "panic"
                       [] r.status = "Err" -> "error"
                       [] OTHER -> "key"
    /\ last_calls' = Counted(last_calls)
    /\ UNCHANGED <<height, last_screen, last_key, last_valid, last_draw,
                   script, report>>

\* the service answers with a text that is not empty
Answer == Finish(NoReply)

\* the request fails, or its reply has no choices
Fail ==
    \E kind \in {"Err", "NoChoices"} :
        Finish([kind |-> kind, text |-> "", empties |-> 0])

\* handle_events after handle_request: the key read and handled
ReadKey ==
    /\ pc = "key"
    /\ \E key \in {ScriptKey} :
         \E r \in {handle_key(self, key, NoListing)} :
            /\ Commit(r.app)
            /\ pc' = CASE r.status = "Panic" -> "panic"
                       [] r.status = "Err" -> "error"
                       [] OTHER -> IF r.app.exit THEN "done" ELSE "draw"
            /\ last_key' = key
    /\ script' = IF script = <<>> THEN script ELSE Tail(script)
    /\ UNCHANGED <<height, last_screen, last_valid, last_draw, last_calls,
                   report>>

NextRetry ==
    Draw \/ PlainEvent \/ StartRequest \/ Retry \/ Answer \/ Fail \/ ReadKey

InitRetry == Boot /\ script \in RetryScripts

\* control reaches the loop of process_request: a StartRequest step
RequestStarts ==
    pc = "events" /\ processing_request /\ pc' \in {"request", "panic"}

\* control leaves the loop of process_request with a text: an Answer step
RequestAnswered == pc = "request" /\ pc' = "key"

\* the loop of App::run keeps running, and the service, asked again and
\* again, answers with a text at last unless a request fails. StartRequest
\* and Answer are enabled wherever RequestStarts and RequestAnswered are and
\* are the only steps that make them
SpecRetry ==
    /\ InitRetry /\ [][NextRetry]_vars
    /\ WF_vars(Draw) /\ WF_pc(RequestStarts) /\ WF_pc(RequestAnswered)

----------------------------------------------------------------------------
(* main (main.rs): what the process returns once App::run has returned.    *)

\* the value of a Result<()> of main
Success == [status |-> "Ok", cause |-> ""]
Failure(cause) == [status |-> "Err", cause |-> cause]

\* the errors App::run can return: ureq's Error::StatusCode, another ureq
\* Error, and an error that is not ureq's (std::io::Error of draw and read)
StatusCode(n) == [type |-> "StatusCode", status |-> n]
Transport == [type |-> "Ureq", status |-> 0]
IoError == [type |-> "Io", status |-> 0]
NoError == [type |-> "None", status |-> 0]

\* the status codes main names, and two it does not
NamedStatus == {400, 401, 402, 403, 408, 429, 502, 503}
OtherStatus == {404, 500}
CollaboratorErrors ==
    {StatusCode(n) : n \in NamedStatus \cup OtherStatus} \cup {Transport}

\* the match on result.err() of main, after restore()
main(err) ==
    IF err.type = "None" THEN Success
    ELSE IF err.type \in {"StatusCode", "Ureq"}
    THEN IF err.type = "StatusCode"
         THEN CASE err.status = 400 -> Failure("bad request")
                [] err.status = 401 -> Failure("invalid credentials")
                [] err.status = 402 -> Failure("insufficient credits")
                [] err.status = 403 -> Failure("flagged input")
                [] err.status = 408 -> Failure("timed out")
                [] err.status = 429 -> Failure("rate limited")
                [] err.status = 502 -> Failure("invalid response or model down")
                [] err.status = 503 -> Failure("no available providers")
                [] OTHER -> Failure("unknown error")
         ELSE Failure("unknown error")
    ELSE Success

\* term.draw returns an error
DrawFails ==
    /\ pc = "draw"
    /\ pc' = "io_error"
    /\ UNCHANGED <<exit, screen, score, range_input, input, result, model,
                   models, models_view, model_view_selected, model_view_offset,
                   extra_line_help, processing_request, chat_completion_output,
                   height, last_screen, last_key, last_valid, last_draw,
                   last_calls, script, report>>

\* event::read returns an error
ReadFails ==
    /\ pc = "key"
    /\ pc' = "io_error"
    /\ UNCHANGED <<exit, screen, score, range_input, input, result, model,
                   models, models_view, model_view_selected, model_view_offset,
                   extra_line_help, processing_request, chat_completion_output,
                   height, last_screen, last_key, last_valid, last_draw,
                   last_calls, script, report>>

\* the errors run can have returned at pc
Returned ==
    CASE pc = "done" -> {NoError}
      [] pc = "error" -> CollaboratorErrors
      [] pc = "io_error" -> {IoError}
      [] OTHER -> {}

\* App::run has returned: main restores the terminal and returns
Main ==
    /\ \E err \in Returned : report' = main(err)
    /\ pc' = "exited"
    /\ UNCHANGED <<exit, screen, score, range_input, input, result, model,
                   models, models_view, model_view_selected, model_view_offset,
                   extra_line_help, processing_request, chat_completion_output,
                   height, last_screen, last_key, last_valid, last_draw,
                   last_calls, script>>

NextMain == NextRetry \/ DrawFails \/ ReadFails \/ Main

SpecMain == InitRetry /\ [][NextMain]_vars

----------------------------------------------------------------------------
(* What the user typed, read as the specification reads it: the numbers    *)
(* left and right of the two dots, compared as numbers of any size.        *)

IsNumber(text) == Len(text) >= 1 /\ \A i \in 1..Len(text) : text[i] \in AsciiDigits

IsRangeText(text) ==
    \E i \in 2..(Len(text) - 2) :
        /\ text[i] = "." /\ text[i + 1] = "."
        /\ IsNumber(SubSeq(text, 1, i - 1))
        /\ IsNumber(SubSeq(text, i + 2, Len(text)))

DotsAt(text) == CHOOSE i \in 2..(Len(text) - 2) : text[i] = "." /\ text[i + 1] = "."

LeftOf(text) == SubSeq(text, 1, DotsAt(text) - 1)

RightOf(text) == SubSeq(text, DotsAt(text) + 2, Len(text))

RECURSIVE LexLess(_, _)
LexLess(a, b) ==
    IF a = <<>> THEN FALSE
    ELSE IF a[1] # b[1] THEN DigitVal(a[1]) < DigitVal(b[1])
    ELSE LexLess(Tail(a), Tail(b))

NumLess(a, b) ==
    LET x == StripZeros(a)
        y == StripZeros(b)
    IN  Len(x) < Len(y) \/ (Len(x) = Len(y) /\ LexLess(x, y))

NumLeq(a, b) == ~NumLess(b, a)

Representable(r, g) ==
    ~Overflows(LeftOf(r)) /\ ~Overflows(RightOf(r)) /\ ~Overflows(g)

\* range text a..b with a < b and guess g with a <= g <= b
InRange(r, g) ==
    /\ IsRangeText(r) /\ IsNumber(g)
    /\ NumLess(LeftOf(r), RightOf(r))
    /\ NumLeq(LeftOf(r), g) /\ NumLeq(g, RightOf(r))

Text_1_10 == <<"1", ".", ".", "1", "0">>
Text_10_1 == <<"1", "0", ".", ".", "1">>
Text_5 == <<"5">>

----------------------------------------------------------------------------
(* The claims. *)

\* C1: validate_input returns true for every range text a..b with a < b
\* and every guess g with a <= g <= b (all three numbers fitting a usize),
\* multi-digit bounds included.
C1_AcceptsInRange ==
    (/\ last_valid # "None"
     /\ InRange(range_input, input)
     /\ Representable(range_input, input))
        => last_valid = "True"

\* C2: validate_input returns false whenever the range text is not
\* <digits>..<digits>, the guess text is not digits, a >= b, or the guess is
\* outside [a, b], a and b being the numbers typed left and right of the dots.
C2_RejectsBad ==
    (last_valid # "None" /\ ~InRange(range_input, input))
        => last_valid = "False"

\* C3: a confirm whose range bound or guess is a digit string larger than the
\* largest usize is a validation failure: the invalid flag is set, the screen
\* is unchanged and the run goes on.
C3_OversizeIsInvalid ==
    (/\ last_key = Enter /\ IsGame(last_screen)
     /\ IsRangeText(range_input) /\ IsNumber(input)
     /\ ~Representable(range_input, input))
        => /\ last_valid = "False"
           /\ extra_line_help
           /\ screen = last_screen
           /\ pc = "draw"

\* C4: scenario A: select, "1..10", switch focus, "5", confirm gives
\* processing = true with the invalid flag clear; once the round is resolved
\* with a non-empty reply the screen is InGame(EndMenu(Repeat)) and the
\* outcome is set.
C4_ScenarioA ==
    (range_input = Text_1_10 /\ input = Text_5) =>
        /\ (last_key = Enter /\ last_screen = Game("Input"))
               => (processing_request /\ ~extra_line_help /\ pc = "draw")
        /\ (script = <<>> /\ last_key = NoKey /\ pc = "draw")
               => (screen = EndMenu("Repeat") /\ result # "None")

C6_QuitOnEveryScreen ==
    last_key = Char("q") => exit

\* C7: select on InGame(EndMenu(Repeat)) moves to InGame(Game(Range)) with the
\* range text empty, the guess text empty and the outcome unset.
C7_RepeatStartsFresh ==
    (last_screen = EndMenu("Repeat") /\ last_key = Char("l"))
        => /\ screen = Game("Range")
           /\ range_input = <<>> /\ input = <<>>
           /\ result = "None"

\* C8: select on MainMenu(Play) moves to InGame(Game(Range)), and right after
\* it the range text is empty, the guess text is empty and the outcome is
\* unset.
C8_PlayStartsFresh ==
    (last_screen = MainMenu("Play") /\ last_key = Char("l"))
        => /\ screen = Game("Range")
           /\ range_input = <<>> /\ input = <<>>
           /\ result = "None"

C8_Witness ==
    /\ last_screen = MainMenu("Play") /\ last_key = Char("l")
    /\ screen = Game("Range") /\ models # <<>> /\ model # DefaultModel

\* C9 as stated: main-menu navigation wraps around: up on MainMenu(Play)
\* moves to MainMenu(Exit) and down on MainMenu(Exit) moves to MainMenu(Play).
C9_MainMenuWraps ==
    /\ (last_screen = MainMenu("Play") /\ last_key = Char("k"))
           => screen = MainMenu("Exit")
    /\ (last_screen = MainMenu("Exit") /\ last_key = Char("j"))
           => screen = MainMenu("Play")

\* C9 as amended: main-menu navigation does not wrap around: up on
\* MainMenu(Play) leaves the screen at MainMenu(Play) and down on
\* MainMenu(Exit) leaves it at MainMenu(Exit).
C9_MainMenuStops ==
    /\ (last_screen = MainMenu("Play") /\ last_key = Char("k"))
           => screen = MainMenu("Play")
    /\ (last_screen = MainMenu("Exit") /\ last_key = Char("j"))
           => screen = MainMenu("Exit")

C9_Witness ==
    /\ last_screen = MainMenu("Exit") /\ last_key = Char("j")
    /\ screen = MainMenu("Exit") /\ ~exit

\* the session texts, the flags, the catalogue and the chosen model
Session ==
    <<range_input, input, result, score, extra_line_help, processing_request,
      chat_completion_output, models, models_view, model_view_selected,
      model_view_offset, model>>

\* C10: on the main menu down takes Play to Options and Options to Exit, up
\* takes Exit to Options and Options to Play, select on Options moves to
\* OptionsMenu(Model), select on Exit sets exit = true and leaves the screen;
\* none of them changes the session texts, the flags, the catalogue or the
\* chosen model.
C10_MainMenuMoves ==
    [][pc = "events" =>
          /\ (screen = MainMenu("Play") /\ last_key' = Char("j"))
                 => (screen' = MainMenu("Options") /\ ~exit' /\ UNCHANGED Session)
          /\ (screen = MainMenu("Options") /\ last_key' = Char("j"))
                 => (screen' = MainMenu("Exit") /\ ~exit' /\ UNCHANGED Session)
          /\ (screen = MainMenu("Exit") /\ last_key' = Char("k"))
                 => (screen' = MainMenu("Options") /\ ~exit' /\ UNCHANGED Session)
          /\ (screen = MainMenu("Options") /\ last_key' = Char("k"))
                 => (screen' = MainMenu("Play") /\ ~exit' /\ UNCHANGED Session)
          /\ (screen = MainMenu("Options") /\ last_key' = Char("l"))
                 => (screen' = OptionsMenu("Model") /\ ~exit' /\ UNCHANGED Session)
          /\ (screen = MainMenu("Exit") /\ last_key' = Char("l"))
                 => (screen' = MainMenu("Exit") /\ exit' /\ UNCHANGED Session)]_vars

C10_Witness ==
    /\ last_screen = MainMenu("Exit") /\ last_key = Char("l")
    /\ screen = MainMenu("Exit") /\ exit /\ pc = "done"
    /\ models # <<>> /\ model # DefaultModel

\* C11 as stated: back on OptionsMenu(Model) returns to MainMenu(Play).
C11_BackLeavesOptions ==
    (last_screen = OptionsMenu("Model") /\ last_key = Char("h"))
        => screen = MainMenu("Play")

\* C11 as amended: back on OptionsMenu(Model) leaves the screen at
\* OptionsMenu(Model).
C11_BackStaysOnOptions ==
    (last_screen = OptionsMenu("Model") /\ last_key = Char("h"))
        => screen = OptionsMenu("Model")

C11_Witness ==
    /\ last_screen = OptionsMenu("Model") /\ last_key = Char("h")
    /\ screen = OptionsMenu("Model") /\ pc = "draw"

\* C12: on the options menu down takes Model to Return, up takes Return to
\* Model, select on Return moves to MainMenu(Play); up on Model and down on
\* Return leave the screen unchanged (no wrap-around).
C12_OptionsMenuMoves ==
    [][pc = "events" =>
          /\ (screen = OptionsMenu("Model") /\ last_key' = Char("j"))
                 => screen' = OptionsMenu("Return")
          /\ (screen = OptionsMenu("Return") /\ last_key' = Char("k"))
                 => screen' = OptionsMenu("Model")
          /\ (screen = OptionsMenu("Return") /\ last_key' = Char("l"))
                 => screen' = MainMenu("Play")
          /\ (screen = OptionsMenu("Model") /\ last_key' = Char("k"))
                 => screen' = OptionsMenu("Model")
          /\ (screen = OptionsMenu("Return") /\ last_key' = Char("j"))
                 => screen' = OptionsMenu("Return")]_vars

C12_Witness ==
    /\ last_screen = OptionsMenu("Return") /\ last_key = Char("j")
    /\ screen = OptionsMenu("Return") /\ pc = "draw"

\* C13: select on OptionsMenu(Model), the first time and every later time,
\* moves to ModelMenu with the scroll offset 0 and the highlighted identifier
\* the first element of the catalogue, and leaves the chosen model as it was
\* (a select that ends the process with a panic aside).
C13_EntryResetsView ==
    [][(/\ pc = "events" /\ screen = OptionsMenu("Model")
        /\ last_key' = Char("l") /\ pc' # "panic")
          => /\ screen' = ModelMenu
             /\ model_view_offset' = 0
             /\ models' # <<>>
             /\ model_view_selected' = models'[1]
             /\ model' = model]_vars

\* a repeated entry, after a model was chosen
C13_Witness ==
    /\ last_screen = OptionsMenu("Model") /\ last_key = Char("l")
    /\ screen = ModelMenu /\ pc = "draw"
    /\ Len(models) > 3 /\ model = "b"
    /\ model_view_offset = 0 /\ model_view_selected = "a"

\* C14: right after every entry into ModelMenu, the first and the repeated,
\* the catalogue is exactly the sequence the listing service returned for
\* that entry, with nothing left over from earlier fetches.
C14_CatalogueRebuilt ==
    (/\ last_screen = OptionsMenu("Model") /\ last_key = Char("l")
     /\ screen = ModelMenu /\ pc = "draw")
        => \E listing \in MenuListings : listing.ok /\ models = listing.data

\* C15: in ModelMenu select sets the chosen model to the highlighted
\* identifier and leaves the screen, the highlighted identifier, the offset and
\* the catalogue unchanged; back moves to OptionsMenu(Model) and leaves the
\* chosen model unchanged.
C15_ModelMenuSelectAndBack ==
    [][pc = "events" =>
          /\ (screen = ModelMenu /\ last_key' = Char("l"))
                 => /\ model' = model_view_selected
                    /\ UNCHANGED <<screen, model_view_selected,
                                   model_view_offset, models>>
          /\ (screen = ModelMenu /\ last_key' = Char("h"))
                 => /\ screen' = OptionsMenu("Model")
                    /\ model' = model]_vars

\* a select on a highlight that was scrolled to
C15_Witness ==
    /\ last_screen = ModelMenu /\ last_key = Char("l")
    /\ screen = ModelMenu /\ pc = "draw"
    /\ model = "c" /\ model_view_selected = "c" /\ model_view_offset > 0

\* C16: on the end menu down takes Repeat to Exit, up takes Exit to Repeat,
\* select on Exit sets exit = true; up on Repeat, down on Exit and back on
\* either change nothing; none of these changes the outcome or the displayed
\* completion text.
C16_EndMenuMoves ==
    [][pc = "events" =>
          /\ (screen = EndMenu("Repeat") /\ last_key' = Char("j"))
                 => screen' = EndMenu("Exit")
          /\ (screen = EndMenu("Exit") /\ last_key' = Char("k"))
                 => screen' = EndMenu("Repeat")
          /\ (screen = EndMenu("Exit") /\ last_key' = Char("l"))
                 => exit'
          /\ (\/ screen = EndMenu("Repeat") /\ last_key' = Char("k")
              \/ screen = EndMenu("Exit") /\ last_key' = Char("j")
              \/ screen \in {EndMenu("Repeat"), EndMenu("Exit")}
                     /\ last_key' = Char("h"))
                 => UNCHANGED <<screen, exit, Session>>
          /\ (/\ screen \in {EndMenu("Repeat"), EndMenu("Exit")}
              /\ last_key' \in {Char("j"), Char("k"), Char("h")}
                     \cup (IF screen = EndMenu("Exit") THEN {Char("l")} ELSE {}))
                 => UNCHANGED <<result, chat_completion_output>>]_vars

C16_Witness ==
    /\ last_screen = EndMenu("Exit") /\ last_key = Char("l")
    /\ screen = EndMenu("Exit") /\ exit /\ pc = "done"
    /\ result = "Correct" /\ chat_completion_output = "Howdy"

\* C17: in every state whose screen is ModelMenu, right after a render with
\* a capacity of at least one row, the highlighted identifier stands at an
\* index of the catalogue within [offset, offset + capacity), whatever the
\* up and down commands before it and however the capacity changed between
\* the renders.
C17_VisibleWindow ==
    (pc = "events" /\ screen = ModelMenu /\ height >= 1)
        => \E i \in 1..Len(models) :
               /\ models[i] = model_view_selected
               /\ model_view_offset <= i - 1
               /\ i - 1 < model_view_offset + height

\* C18: in every state whose screen is ModelMenu and whose catalogue is not
\* empty, the highlighted identifier is an element of the catalogue.
C18_HighlightInCatalogue ==
    (screen = ModelMenu /\ models # <<>>)
        => \E i \in 1..Len(models) : models[i] = model_view_selected

\* down has moved the highlight off the row that was the last one shown
C18_Witness ==
    /\ last_screen = ModelMenu /\ last_key = Char("j")
    /\ screen = ModelMenu /\ pc = "draw"
    /\ models = <<"a", "b", "c">> /\ models_view = <<"b">>
    /\ model_view_selected = "c" /\ model_view_offset = 2

\* the text without its last character, the empty text for the empty text
Popped(text) == IF text = <<>> THEN text ELSE SubSeq(text, 1, Len(text) - 1)

\* the state after two switch-focus commands, a frame drawn between them
TwoTabs ==
    LET once == handle_events(self, Tab, -1, NoReply, NoListing).app
        drawn == render(once, height).app
    IN  handle_events(drawn, Tab, -1, NoReply, NoListing).app

\* C19: on InGame(Game(focus)) with no request in process, a character is
\* appended to the range text under focus Range and to the guess text under
\* focus Input; Backspace removes the last character of the focused text and
\* does nothing to an empty one; Tab toggles the focus and changes neither
\* text; the text out of focus is never changed, and two Tabs in a row restore
\* the focus.
C19_EditsFocusedField ==
    [][(pc = "events" /\ IsGame(screen) /\ ~processing_request) =>
          /\ (screen = Game("Range") /\ last_key'.code = "Char")
                 => /\ range_input' = Append(range_input, last_key'.ch)
                    /\ UNCHANGED <<input, screen>>
          /\ (screen = Game("Input") /\ last_key'.code = "Char")
                 => /\ input' = Append(input, last_key'.ch)
                    /\ UNCHANGED <<range_input, screen>>
          /\ (screen = Game("Range") /\ last_key' = Backspace)
                 => /\ range_input' = Popped(range_input)
                    /\ UNCHANGED <<input, screen>>
          /\ (screen = Game("Input") /\ last_key' = Backspace)
                 => /\ input' = Popped(input)
                    /\ UNCHANGED <<range_input, screen>>
          /\ (screen = Game("Range") /\ last_key' = Tab)
                 => /\ screen' = Game("Input")
                    /\ UNCHANGED <<range_input, input>>
          /\ (screen = Game("Input") /\ last_key' = Tab)
                 => /\ screen' = Game("Range")
                    /\ UNCHANGED <<range_input, input>>
          /\ TwoTabs.screen = screen
          /\ TwoTabs.range_input = range_input
          /\ TwoTabs.input = input]_vars

\* Backspace has emptied the guess text and left the range text alone
C19_Witness ==
    /\ last_screen = Game("Input") /\ last_key = Backspace
    /\ screen = Game("Input") /\ pc = "draw"
    /\ input = <<>> /\ range_input = <<"0", ".", ".", "1">>

\* C20: on every screen other than InGame(Game(_)), Tab, Backspace, Enter and
\* a character that is none of q, h, j, k, l leave the whole state unchanged:
\* the screen, the texts, the flags, the outcome, the catalogue, the
\* highlight, the offset, the chosen model and exit.
C20_EditingKeysIgnored ==
    [][(/\ pc = "events" /\ ~IsGame(screen)
        /\ \/ last_key' \in {Tab, Backspace, Enter}
           \/ last_key'.code = "Char" /\ last_key'.ch \notin Letters)
          => UNCHANGED <<screen, exit, Session>>]_vars

\* a digit pressed on the end menu of a round
C20_Witness ==
    /\ last_screen = EndMenu("Repeat") /\ last_key = Char("0")
    /\ screen = EndMenu("Repeat") /\ pc = "draw"
    /\ range_input # <<>> /\ models # <<>>

\* C21: on InGame(Game(Range)) and InGame(Game(Input)) the letters h, j, k
\* and l are navigation commands, not characters to append: they leave the
\* range text and the guess text unchanged.
C21_LettersNavigateInGame ==
    [][(pc = "events" /\ IsGame(screen) /\ last_key' \in MenuKeys)
          => UNCHANGED <<range_input, input>>]_vars

\* texts the chat-completion service may return
ReturnedTexts == {"Howdy", "Sorry"}

\* C22: a round resolution that completes (the processing flag was set and
\* the service returned a text that is not empty) ends with the screen
\* InGame(EndMenu(Repeat)), the processing flag false, the outcome Correct or
\* Incorrect and the display output the returned text, and leaves the range
\* text, the guess text, the chosen model and the score unchanged.
C22_ResolutionCompletes ==
    [][(pc = "events" /\ processing_request) =>
          /\ \A text \in ReturnedTexts :
                 LET r == handle_request(self, last_draw',
                              [kind |-> "Text", text |-> text, empties |-> 0])
                 IN  r.status = "Ok" =>
                        /\ r.app.screen = EndMenu("Repeat")
                        /\ ~r.app.processing_request
                        /\ r.app.result \in {"Correct", "Incorrect"}
                        /\ r.app.chat_completion_output = text
                        /\ r.app.range_input = range_input
                        /\ r.app.input = input
                        /\ r.app.model = model
                        /\ r.app.score = score
          /\ (pc' \in {"draw", "done"} /\ last_key' = NoKey)
                 => /\ screen' = EndMenu("Repeat")
                    /\ ~processing_request'
                    /\ result' \in {"Correct", "Incorrect"}
                    /\ chat_completion_output' = "Howdy"
                    /\ UNCHANGED <<range_input, input, model, score>>]_vars

\* a resolution that was answered after one empty reply
C22_Witness ==
    /\ last_calls = 2 /\ last_draw = 1 /\ pc = "draw"
    /\ screen = EndMenu("Repeat") /\ ~processing_request
    /\ result = "Correct" /\ chat_completion_output = "Howdy"
    /\ range_input = <<"0", ".", ".", "1", "2">>

\* C23: the value drawn in a round resolution lies in [a, b], a and b being
\* the numbers written left and right of the dots of the range text, and the
\* outcome is Correct if and only if the drawn value is the guess.
C23_DrawInWrittenRange ==
    last_draw # -1 =>
        /\ IsRangeText(range_input)
        /\ parse_usize(LeftOf(range_input)).val <= last_draw
        /\ last_draw <= parse_usize(RightOf(range_input)).val
        /\ (result = "Correct") <=> (last_draw = parse_usize(input).val)

\* C24: an error of the chat-completion service during a round resolution
\* ends the run: the screen stays the text-entry screen it was and is not
\* moved to InGame(EndMenu(_)), the display output is left as it was, the
\* handle_events that failed reads no key, and no step follows the error.
C24_RequestErrorIsFatal ==
    [][/\ pc # "error"
       /\ pc' = "error" =>
              /\ processing_request
              /\ IsGame(screen) /\ screen' = screen
              /\ UNCHANGED chat_completion_output
              /\ last_key' = NoKey]_vars

\* the error ended the second round, the text of the first still stored
C24_Witness ==
    /\ pc = "error" /\ IsGame(screen) /\ last_calls >= 1
    /\ chat_completion_output = "Howdy" /\ last_key = NoKey

\* C25: no transition panics: with a catalogue that is not empty, no key
\* event ends the process with a panic, whatever the number of rows of the
\* list area, none included (the select that asks the listing service, which
\* may fail, aside).
C25_NoTransitionPanics ==
    (models # <<>> /\ last_screen # OptionsMenu("Model")) => pc # "panic"

\* the pairs of a menu screen and a navigation key the transition table has
\* no entry for
NoEntry(s, key) ==
    \/ /\ key = Char("h")
       /\ s \in {MainMenu("Play"), MainMenu("Options"), MainMenu("Exit"),
                 OptionsMenu("Return"), EndMenu("Repeat"), EndMenu("Exit")}
    \/ key = Char("k") /\ s \in {OptionsMenu("Model"), EndMenu("Repeat")}
    \/ key = Char("j") /\ s \in {OptionsMenu("Return"), EndMenu("Exit")}

\* C26: a screen and a command without an entry in the transition table
\* change nothing of the state: back on the main menu, on OptionsMenu(Return)
\* and on the end menu, up on OptionsMenu(Model) and InGame(EndMenu(Repeat)),
\* down on OptionsMenu(Return) and InGame(EndMenu(Exit)); and the handlers of
\* back, down and up applied on a text-entry screen return the state they got.
C26_UnlistedPairsDoNothing ==
    [][pc = "events" =>
          /\ NoEntry(screen, last_key') => UNCHANGED <<screen, exit, Session>>
          /\ IsGame(screen) =>
                 /\ handle_h_input(self) = self
                 /\ handle_j_input(self) = Ok(self)
                 /\ handle_k_input(self) = Ok(self)]_vars

C26_Witness ==
    /\ last_screen = EndMenu("Exit") /\ last_key = Char("h")
    /\ screen = EndMenu("Exit") /\ ~exit /\ pc = "draw"
    /\ result = "Incorrect"

\* C27: once exit is true the run loop is over: the step that sets it ends
\* the loop, and no step starts in a state where it is set, so no key is
\* handled, no round is resolved and exit is not reset afterwards.
C27_ExitEndsTheLoop ==
    [][~exit /\ (exit' => pc' = "done")]_vars

\* quit pressed in the model menu
C27_Witness ==
    /\ exit /\ pc = "done"
    /\ last_screen = ModelMenu /\ last_key = Char("q")
    /\ screen = ModelMenu

\* C28: the screen a handle_events ends in is a function of the full state,
\* the key and the replies of the two services: whatever values the random
\* draw returns, the same key and the same replies lead from the same state to
\* the same screen, the same exit flag and the same way of returning.
C28_ScreenIgnoresTheDraw ==
    pc = "events" =>
        \A key \in Keys \cup {NoKey}, reply \in RepliesFor(self) :
            \A listing \in ListingsFor(self, key) :
                \A r1, r2 \in DrawRange(self) :
                    LET one == handle_events(self, key, r1, reply, listing)
                        two == handle_events(self, key, r2, reply, listing)
                    IN  /\ one.status = two.status
                        /\ one.app.screen = two.app.screen
                        /\ one.app.exit = two.app.exit

\* a round resolved as Correct and the key j handled right after it
C28_Witness ==
    /\ last_draw = 0 /\ result = "Correct" /\ last_calls = 1
    /\ last_key = Char("j") /\ screen = EndMenu("Exit") /\ pc = "draw"

\* the indices of the catalogue (from 1) the highlighted identifier stands at
HighlightedAt == {i \in 1..Len(models) : models[i] = model_view_selected}

\* C29: down in ModelMenu, on the first entry and on every later one: with
\* the highlight on the last element nothing changes; otherwise the
\* highlight moves to the next element and the offset grows by exactly 1 if
\* the element highlighted before stood at the last visible row (index
\* offset + capacity - 1, counted from 0), and stays as it was if not.
C29_ForwardAdvance ==
    [][(/\ pc = "events" /\ screen = ModelMenu /\ last_key' = Char("j")
        /\ pc' # "panic")
          => \E i \in HighlightedAt :
                 IF i = Len(models)
                 THEN UNCHANGED <<model_view_selected, model_view_offset>>
                 ELSE /\ model_view_selected' = models[i + 1]
                      /\ model_view_offset' =
                             IF i - 1 = model_view_offset + height - 1
                             THEN model_view_offset + 1
                             ELSE model_view_offset]_vars

Distinct == \A i, j \in 1..Len(models) : models[i] = models[j] => i = j

\* app after n presses of key, a frame of height rows rendered after each
RECURSIVE Advanced(_, _, _)
Advanced(app, key, n) ==
    IF n = 0 THEN app
    ELSE Advanced(
             render(handle_events(app, key, -1, NoReply, NoListing).app,
                    height).app,
             key, n - 1)

\* the highlight of app is the element of index k (from 0) and stands in the
\* window of app
ShowsElement(app, k) ==
    /\ app.model_view_selected = models[k + 1]
    /\ app.model_view_offset <= k
    /\ k < app.model_view_offset + height

\* C31: with N distinct identifiers and a capacity that stays at some value
\* from 1 to N - 1, the N - 1 downs after an entry into ModelMenu highlight
\* the elements one after the other in catalogue order, each inside
\* [offset, offset + capacity), and end on the last one with offset
\* N - capacity; the N - 1 ups after them lead back the same way to the first
\* element with offset 0.
C31_Traversal ==
    (/\ pc = "draw" /\ screen = ModelMenu
     /\ last_screen = OptionsMenu("Model")
     /\ Distinct /\ height >= 1 /\ Len(models) > height)
        => LET N == Len(models)
               first == render(self, height).app
               last == Advanced(first, Char("j"), N - 1)
           IN  /\ \A k \in 0..(N - 1) :
                      ShowsElement(Advanced(first, Char("j"), k), k)
               /\ last.model_view_offset = N - height
               /\ \A k \in 0..(N - 1) :
                      ShowsElement(Advanced(last, Char("k"), k), N - 1 - k)
               /\ Advanced(last, Char("k"), N - 1).model_view_offset = 0

\* the last down of a traversal of three elements through two rows
C31_Witness ==
    /\ last_screen = ModelMenu /\ last_key = Char("j")
    /\ screen = ModelMenu /\ pc = "draw" /\ height = 2
    /\ models = <<"a", "b", "c">> /\ models_view = <<"a", "b">>
    /\ model_view_selected = "c" /\ model_view_offset = 1

\* C32 as stated: after a confirm has set the processing flag no frame is
\* rendered before the round resolution starts.
C32_NoRenderBeforeResolution ==
    [][(pc = "draw" /\ processing_request) => pc' = "draw"]_vars

\* C32 as amended: a confirm that sets the processing flag is followed by
\* exactly one render, which changes nothing of the session, and the round
\* resolution runs in the handle_events right after that render.
C32_OneRenderBeforeResolution ==
    [][/\ last_valid' = "True" => (processing_request' /\ pc' = "draw")
       /\ (pc = "draw" /\ processing_request)
              => /\ pc' = "events"
                 /\ UNCHANGED <<screen, exit, Session>>
       /\ (pc = "events" /\ processing_request)
              => /\ last_draw' # -1
                 /\ last_calls' >= 1
                 /\ ~processing_request' \/ pc' \in {"error", "panic"}]_vars

\* the frame between the confirm and the resolution has been rendered
C32_Witness ==
    /\ pc = "events" /\ processing_request /\ IsGame(screen)
    /\ ~extra_line_help /\ result = "None"

\* C33: a reply with an empty text is not an error: the request is sent
\* again with the same model and outcome and nothing of the state changes,
\* so as long as the replies are empty the resolution does not complete; and
\* if the service answers with a text at last, every confirm that set the
\* processing flag is followed by a state with the screen
\* InGame(EndMenu(Repeat)) and the flag false, unless a request fails.
C33_RetryUntilAnswered ==
    /\ [][(pc = "request" /\ pc' = "request")
             => UNCHANGED <<screen, exit, Session>>]_vars
    /\ [](pc = "request" => processing_request /\ IsGame(screen))
    /\ processing_request
           ~> \/ screen = EndMenu("Repeat") /\ ~processing_request
              \/ pc \in {"error", "panic"}

\* a round resolved after more than one empty reply
C33_Witness ==
    /\ last_calls = MaxEmpty + 1 /\ last_key = NoKey /\ pc = "key"
    /\ screen = EndMenu("Repeat") /\ ~processing_request
    /\ chat_completion_output = "Howdy"

\* C34: every error that ends the run loop makes the process return an
\* error with a cause: the named status codes their own, every other error
\* "unknown error", and never a success
C34_ErrorsReported ==
    [][(pc \in {"error", "io_error"} /\ pc' = "exited")
          => /\ report'.status = "Err"
             /\ report'.cause # ""
             /\ \A err \in Returned :
                   /\ main(err).status = "Err"
                   /\ (err.type = "StatusCode" /\ err.status \in NamedStatus)
                         <=> main(err).cause # "unknown error"]_vars

\* what a render may not write
Core ==
    <<screen, range_input, input, result, score, extra_line_help,
      processing_request, models, model_view_selected, model_view_offset,
      model, exit, chat_completion_output>>

\* C35 as stated: a render of any screen changes nothing of the screen, the
\* texts, the outcome, the score, the flags, the catalogue, the highlight,
\* the chosen model or the exit flag, and after it the visible slice is
\* models[offset .. offset + rows] clipped to the catalogue
C35_SliceAfterEveryRender ==
    [][(pc = "draw" /\ pc' \in {"events", "panic"})
          => /\ UNCHANGED Core
             /\ models_view' = visible(self, height)]_vars

\* C35 amended: a render changes nothing of the core state; in ModelMenu it
\* rebuilds the visible slice as models[offset .. offset + rows] clipped to
\* the catalogue, and on every other screen it leaves the slice as it was
C35_RenderReadOnly ==
    [][(pc = "draw" /\ pc' \in {"events", "panic"})
          => /\ UNCHANGED Core
             /\ screen = ModelMenu => models_view' = visible(self, height)
             /\ screen # ModelMenu => UNCHANGED models_view]_vars

C35_Witness ==
    /\ pc = "events" /\ screen = ModelMenu /\ height = 2
    /\ models = <<"a", "b", "c">> /\ model_view_offset = 1
    /\ models_view = <<"b", "c">> /\ model_view_selected = "c"

\* C36: the processing flag is set only on a game screen with the invalid
\* flag clear; it is set by a valid confirm and by nothing else; the
\* handle_events that starts with the flag set ends the run by an error or
\* clears the flag before it reads a key, so that the key is handled on
\* EndMenu(Repeat): no text is edited, the focus is not switched and
\* validate_input is not called
C36_FlagOnlyInFlight ==
    /\ [](processing_request => IsGame(screen) /\ ~extra_line_help)
    /\ [][/\ (processing_request' /\ ~processing_request)
                => (last_valid' = "True" /\ IsGame(screen))
          /\ (pc = "events" /\ processing_request)
                => \/ pc' \in {"error", "panic"}
                   \/ /\ ~processing_request'
                      /\ last_valid' = "None"
                      /\ UNCHANGED <<range_input, input>>
                      /\ screen' \in {EndMenu("Repeat"), EndMenu("Exit"),
                                      Game("Range")}
                      /\ screen' = Game("Range") => last_key' = Char("l")]_vars

C36_Witness ==
    /\ pc = "draw" /\ last_screen = Game("Input") /\ last_key = Tab
    /\ last_calls >= 1 /\ screen = EndMenu("Repeat") /\ ~processing_request

\* C37: on an end menu the outcome is set, so the render of the end menu
\* does not fail; an end menu is entered only by the handle_events that
\* resolves a round, and an outcome once set is never unset
C37_OutcomeOnEndMenu ==
    /\ [](screen \in {EndMenu("Repeat"), EndMenu("Exit")} => result # "None")
    /\ [][/\ result # "None" => result' # "None"
          /\ (pc = "draw" /\ screen \in {EndMenu("Repeat"), EndMenu("Exit")})
                => pc' = "events"
          /\ (/\ screen \notin {EndMenu("Repeat"), EndMenu("Exit")}
              /\ screen' \in {EndMenu("Repeat"), EndMenu("Exit")})
                => (processing_request /\ last_calls' >= 1)]_vars

C37_Witness ==
    /\ pc = "draw" /\ screen = EndMenu("Exit") /\ result = "Correct"
    /\ last_screen = EndMenu("Repeat") /\ last_key = Char("j")

C39_ModelChosenBySelect ==
    [][model' # model
          => /\ screen = ModelMenu
             /\ last_key' = Char("l")
             /\ model' = model_view_selected]_vars

C39_Witness ==
    /\ last_screen = ModelMenu /\ last_key = Char("l") /\ pc = "draw"
    /\ model = "b" /\ model_view_selected = "b" /\ screen = ModelMenu

\* the Up branch of handle_model_menu_updates decrements the offset in app
UpScrolls(app) ==
    /\ app.models # <<>>
    /\ app.models_view # <<>>
    /\ FirstMatch(app, app.models[1]) # 0
    /\ app.model_view_selected = app.models_view[1]

\* C40: the offset never underflows and never exceeds the length of the
\* catalogue, repeated identifiers included: whenever the Up branch would
\* decrement it the offset is at least 1, and the offset goes down only by
\* that decrement of 1 or by the reset to 0 on entering ModelMenu
C40_OffsetInBounds ==
    /\ [](model_view_offset <= Len(models))
    /\ []((pc = "events" /\ screen = ModelMenu /\ UpScrolls(self))
             => model_view_offset >= 1)
    /\ [][model_view_offset' < model_view_offset
             => \/ /\ screen = ModelMenu /\ last_key' = Char("k")
                   /\ UpScrolls(self)
                   /\ model_view_offset' = model_view_offset - 1
                \/ /\ screen = OptionsMenu("Model") /\ last_key' = Char("l")
                   /\ model_view_offset' = 0]_vars

C40_Witness ==
    /\ last_screen = ModelMenu /\ last_key = Char("k") /\ pc = "draw"
    /\ models = <<"a", "b", "a", "b", "c">> /\ model_view_offset = 0
    /\ model_view_selected = "a" /\ models_view = <<"b", "a">>

====
